---- MODULE Spec2Model ----
(***************************************************************************)
(* Model of the DeviceDestroyable derive macro (derive/src/lib.rs).        *)
(*                                                                         *)
(* One behaviour is one expansion of the macro on one input: impl_macro    *)
(* matches the shape of the input, parse_attributes scans the fields and   *)
(* their attributes, FunctionDestroyStmtsFieldIterator yields the destroy  *)
(* statements, and the quote! at the end of impl_macro emits the output.   *)
(* Field positions and attribute indices are 0-based as in the source; a   *)
(* sequence s of the model holds position p at s[p + 1].                   *)
(***************************************************************************)
EXTENDS Integers, Sequences, FiniteSets

\* Bounds of the explored inputs.
MaxFields == 3
MaxAttrs == 2
MaxTotalAttrs == 3

\* ------------------------------------------------------------------------
\* Inputs

\* attr.path(): the two helper attributes of the derive, or any other one.
Paths == {"destroy_ignore", "destroy_ignore_remaining", "other"}

\* attr.meta: a bare path, or a form with arguments (Meta::List; a
\* Meta::NameValue is rejected by require_path_only in the same way).
Metas == {"Path", "List"}

\* The attributes a field can carry.  The meta of an attribute that is not
\* one of the two helpers is never inspected, so only one form is drawn.
AttrValues ==
    {a \in [path : Paths, meta : Metas] : a.path = "other" => a.meta = "Path"}

\* field.attrs of one field: at most k attributes, in source order.
AttrLists(k) == UNION {[1..m -> AttrValues] : m \in 0..k}

Min(a, b) == IF a < b THEN a ELSE b

\* The field lists of n fields carrying at most budget attributes in all.
RECURSIVE FieldLists(_, _)
FieldLists(n, budget) ==
    IF n = 0 THEN {<<>>}
    ELSE UNION {{<<al>> \o rest : rest \in FieldLists(n - 1, budget - Len(al))} :
                al \in AttrLists(Min(MaxAttrs, budget))}

\* ast.data
DataKinds == {"Struct", "Enum", "Union"}

\* ------------------------------------------------------------------------
\* State

VARIABLES
    data,       \* shape of the input (ast.data)
    fields,     \* the input's fields, each the list of its attributes
    pc,         \* position of the expansion
    f_i,        \* parse_attributes: position of the field being scanned
    attr_i,     \* parse_attributes: index of the attribute being scanned
    destroy_ignore_remaining_index,  \* <<>> for None, <<c>> for Some(c)
    attrs,      \* FieldAttributes of the field being scanned
    field_attrs,\* Vec<FieldAttributes> built by parse_attributes
    errors,     \* Vec<syn::Error> accumulated by parse_attributes
    skipped,    \* number of trailing fields consumed by the iterator's new
    fields_iter,\* number of items left in the reversed enumerate
    stmts,      \* positions whose destroy statement was yielded so far
    output      \* <<>> before the macro returns, then <<token stream>>

vars == <<data, fields, pc, f_i, attr_i, destroy_ignore_remaining_index,
          attrs, field_attrs, errors, skipped, fields_iter, stmts, output>>

\* ------------------------------------------------------------------------
\* Diagnostics

MsgMultipleRemaining == "Multiple #[destroy_ignore_remaining] attributes"
MsgNotAllowedAfter == "Attribute #[destroy_ignore] is not allowed after a #[destroy_ignore_remaining] attribute declaration"
MsgMultipleIgnore == "Multiple #[destroy_ignore] attributes on a single field"
MsgPathOnly == "unexpected token in attribute"
MsgEnum == "Enums are currently unsupported"
MsgUnion == "Unions are currently unsupported"

\* syn::Error::new(span, msg); a span is <<f>> for a field and <<f, a>> for
\* attribute a of field f, and <<>> for the whole input.
Error(span, msg) == [span |-> span, msg |-> msg]

\* attr.meta.require_path_only(): <<>> for Ok, <<err>> for Err(err).
require_path_only(attr, f, a) ==
    IF attr.meta = "Path" THEN <<>> ELSE <<Error(<<f, a>>, MsgPathOnly)>>

\* syn::Error::to_compile_error: one compile_error! invocation per message.
to_compile_error(err) == [compile_error |-> err.msg, at |-> err.span]

\* ------------------------------------------------------------------------
\* parse_attributes, first inner loop: one destroy_ignore_remaining attribute

\* The errors pushed for attribute a of field f.
RemainingErrors(index, attr, f, a) ==
    IF index # <<>>
    THEN <<Error(<<f, a>>, MsgMultipleRemaining)>>
    ELSE require_path_only(attr, f, a)

\* Variant: a later marker overwrites the recorded one.
RemainingIndex_LastWins(index, attr, f) == <<f>>

\* Variant: a marker with arguments is not recorded.
RemainingIndex_ValidOnly(index, attr, f) ==
    IF index # <<>> THEN index
    ELSE IF attr.meta = "Path" THEN <<f>> ELSE index

\* The value of destroy_ignore_remaining_index after the attribute.
RemainingIndex(index, attr, f) ==
    IF index # <<>> THEN index ELSE <<f>>

\* parse_attributes, second inner loop: one destroy_ignore attribute

\* The ordering test of the second loop.
NotAllowedAfter(index, a) ==
    index # <<>> /\ index[1] >= a

\* Variant: the duplicate test always fires.
AlreadyIgnored_Always(flag) == TRUE

\* Variant: the duplicate test never fires.
AlreadyIgnored_Never(flag) == FALSE

\* The duplicate test of the second loop.
AlreadyIgnored(flag) == flag

\* The errors pushed for attribute a of field f.
IgnoreErrors(index, flag, attr, f, a) ==
    (IF NotAllowedAfter(index, a)
        THEN <<Error(<<f, a>>, MsgNotAllowedAfter)>> ELSE <<>>)
    \o (IF AlreadyIgnored(flag)
        THEN <<Error(<<f>>, MsgMultipleIgnore)>> ELSE <<>>)
    \o require_path_only(attr, f, a)

\* Variant: an attribute with arguments does not set the flag.
IgnoreFlag_ValidOnly(flag, attr) == flag \/ attr.meta = "Path"

\* The value of attrs.destroy_ignore after the attribute.
IgnoreFlag(flag, attr) == TRUE

\* ------------------------------------------------------------------------
\* impl_macro

\* Variant: an enum is treated like a struct.
IsStruct_NotUnion(d) == d # "Union"

\* The match on ast.data: only a struct has fields to work on.
IsStruct(d) == d = "Struct"

\* Variant: the recorded cutoff is not used.
Boundary_NoCutoff(index, fields_len) == fields_len

\* Variant: the default boundary is one past the number of fields.
Boundary_OnePast(index, fields_len) ==
    IF index = <<>> THEN fields_len + 1 ELSE index[1]

\* destroy_ignore_after.unwrap_or(fields.len())
Boundary(index, fields_len) ==
    IF index = <<>> THEN fields_len ELSE index[1]

\* Variant: only the first error is surfaced.
stream_errors_FirstOnly(errs) ==
    IF errs = <<>> THEN <<>> ELSE <<to_compile_error(errs[1])>>

\* errors.iter().map(syn::Error::to_compile_error)
stream_errors(errs) == [i \in 1..Len(errs) |-> to_compile_error(errs[i])]

Init ==
    /\ data \in DataKinds
    /\ fields \in UNION {FieldLists(n, MaxTotalAttrs) : n \in 0..MaxFields}
    /\ pc = "impl_macro"
    /\ f_i = 0
    /\ attr_i = 0
    /\ destroy_ignore_remaining_index = <<>>
    /\ attrs = FALSE
    /\ field_attrs = <<>>
    /\ errors = <<>>
    /\ skipped = 0
    /\ fields_iter = 0
    /\ stmts = <<>>
    /\ output = <<>>

\* impl_macro on a struct: take its fields and enter parse_attributes.
ImplMacroStruct ==
    /\ pc = "impl_macro"
    /\ IsStruct(data)
    /\ pc' = "field"
    /\ f_i' = 0
    /\ UNCHANGED <<data, fields, attr_i, destroy_ignore_remaining_index, attrs,
                   field_attrs, errors, skipped, fields_iter, stmts, output>>

\* impl_macro on an enum or a union returns Err, which
\* derive_device_destroyable turns into the whole output.
ImplMacroUnsupported ==
    /\ pc = "impl_macro"
    /\ ~IsStruct(data)
    /\ output' = <<[impl |-> FALSE,
                    body |-> <<>>,
                    compile_errors |->
                        <<to_compile_error(
                            Error(<<>>, IF data = "Enum" THEN MsgEnum ELSE MsgUnion))>>]>>
    /\ pc' = "done"
    /\ UNCHANGED <<data, fields, f_i, attr_i, destroy_ignore_remaining_index,
                   attrs, field_attrs, errors, skipped, fields_iter, stmts>>

\* parse_attributes: the outer loop takes the next field.
FieldBegin ==
    /\ pc = "field"
    /\ f_i < Len(fields)
    /\ attrs' = FALSE
    /\ attr_i' = 0
    /\ pc' = "remaining"
    /\ UNCHANGED <<data, fields, f_i, destroy_ignore_remaining_index,
                   field_attrs, errors, skipped, fields_iter, stmts, output>>

\* First inner loop, one attribute.
RemainingStep ==
    /\ pc = "remaining"
    /\ attr_i < Len(fields[f_i + 1])
    /\ LET attr == fields[f_i + 1][attr_i + 1] IN
        IF attr.path = "destroy_ignore_remaining"
        THEN /\ errors' = errors \o RemainingErrors(destroy_ignore_remaining_index,
                                                    attr, f_i, attr_i)
             /\ destroy_ignore_remaining_index' =
                    RemainingIndex(destroy_ignore_remaining_index, attr, f_i)
        ELSE UNCHANGED <<errors, destroy_ignore_remaining_index>>
    /\ attr_i' = attr_i + 1
    /\ UNCHANGED <<data, fields, pc, f_i, attrs, field_attrs, skipped,
                   fields_iter, stmts, output>>

\* First inner loop exhausted: the second one starts over the same attributes.
RemainingEnd ==
    /\ pc = "remaining"
    /\ attr_i = Len(fields[f_i + 1])
    /\ attr_i' = 0
    /\ pc' = "ignore"
    /\ UNCHANGED <<data, fields, f_i, destroy_ignore_remaining_index, attrs,
                   field_attrs, errors, skipped, fields_iter, stmts, output>>

\* Second inner loop, one attribute.
IgnoreStep ==
    /\ pc = "ignore"
    /\ attr_i < Len(fields[f_i + 1])
    /\ LET attr == fields[f_i + 1][attr_i + 1] IN
        IF attr.path = "destroy_ignore"
        THEN /\ errors' = errors \o IgnoreErrors(destroy_ignore_remaining_index,
                                                 attrs, attr, f_i, attr_i)
             /\ attrs' = IgnoreFlag(attrs, attr)
        ELSE UNCHANGED <<errors, attrs>>
    /\ attr_i' = attr_i + 1
    /\ UNCHANGED <<data, fields, pc, f_i, destroy_ignore_remaining_index,
                   field_attrs, skipped, fields_iter, stmts, output>>

\* Second inner loop exhausted: field_attrs.push(attrs).
FieldPush ==
    /\ pc = "ignore"
    /\ attr_i = Len(fields[f_i + 1])
    /\ field_attrs' = Append(field_attrs, [destroy_ignore |-> attrs])
    /\ f_i' = f_i + 1
    /\ pc' = "field"
    /\ UNCHANGED <<data, fields, attr_i, destroy_ignore_remaining_index, attrs,
                   errors, skipped, fields_iter, stmts, output>>

\* parse_attributes returns (destroy_ignore_remaining_index, field_attrs).
ParseReturn ==
    /\ pc = "field"
    /\ f_i = Len(fields)
    /\ pc' = "new"
    /\ UNCHANGED <<data, fields, f_i, attr_i, destroy_ignore_remaining_index,
                   attrs, field_attrs, errors, skipped, fields_iter, stmts, output>>

\* FunctionDestroyStmtsFieldIterator::new: drop the trailing fields from the
\* reversed iterator.  The usize subtraction panics when it would underflow.
IteratorNew ==
    /\ pc = "new"
    /\ LET fields_len == Len(fields)
           destroy_ignore_everything_after ==
               Boundary(destroy_ignore_remaining_index, fields_len)
       IN IF fields_len >= destroy_ignore_everything_after
          THEN /\ skipped' = fields_len - destroy_ignore_everything_after
               /\ fields_iter' = fields_len
                                 - Min(fields_len,
                                       fields_len - destroy_ignore_everything_after)
               /\ pc' = "next"
          ELSE /\ pc' = "panic"
               /\ UNCHANGED <<skipped, fields_iter>>
    /\ UNCHANGED <<data, fields, f_i, attr_i, destroy_ignore_remaining_index,
                   attrs, field_attrs, errors, stmts, output>>

\* FunctionDestroyStmtsFieldIterator::next, one turn of its loop: take the
\* next item from the back, look its attributes up, yield unless ignored.
\* Indexing field_attributes out of range panics.
IteratorStep ==
    /\ pc = "next"
    /\ fields_iter > 0
    /\ LET i == fields_iter - 1 IN
        /\ fields_iter' = i
        /\ IF i < Len(field_attrs)
           THEN /\ stmts' = IF ~field_attrs[i + 1].destroy_ignore
                            THEN Append(stmts, i) ELSE stmts
                /\ pc' = pc
           ELSE /\ pc' = "panic"
                /\ stmts' = stmts
    /\ UNCHANGED <<data, fields, f_i, attr_i, destroy_ignore_remaining_index,
                   attrs, field_attrs, errors, skipped, output>>

\* The iterator is exhausted: quote! emits the impl with the statements
\* yielded and one compile error per accumulated error.
Emit ==
    /\ pc = "next"
    /\ fields_iter = 0
    /\ output' = <<[impl |-> TRUE,
                    body |-> stmts,
                    compile_errors |-> stream_errors(errors)]>>
    /\ pc' = "done"
    /\ UNCHANGED <<data, fields, f_i, attr_i, destroy_ignore_remaining_index,
                   attrs, field_attrs, errors, skipped, fields_iter, stmts>>

Next ==
    \/ ImplMacroStruct
    \/ ImplMacroUnsupported
    \/ FieldBegin
    \/ RemainingStep
    \/ RemainingEnd
    \/ IgnoreStep
    \/ FieldPush
    \/ ParseReturn
    \/ IteratorNew
    \/ IteratorStep
    \/ Emit

Spec == Init /\ [][Next]_vars

\* ------------------------------------------------------------------------
\* Vocabulary of the properties

NumFields == Len(fields)
Positions == 0..(NumFields - 1)
AttrIndices(f) == 0..(Len(fields[f + 1]) - 1)
AttrAt(f, a) == fields[f + 1][a + 1]
IsIgnore(f, a) == AttrAt(f, a).path = "destroy_ignore"
IsRemaining(f, a) == AttrAt(f, a).path = "destroy_ignore_remaining"
HasArguments(f, a) == AttrAt(f, a).meta # "Path"

IgnoreIndices(f) == {a \in AttrIndices(f) : IsIgnore(f, a)}
RemainingIndices(f) == {a \in AttrIndices(f) : IsRemaining(f, a)}
RemainingFields == {f \in Positions : RemainingIndices(f) # {}}
AllRemaining == {<<f, a>> \in Positions \X (0..MaxAttrs) : a \in RemainingIndices(f)}
NoArguments == \A f \in Positions : \A a \in AttrIndices(f) : ~HasArguments(f, a)
NoIgnore == \A f \in Positions : IgnoreIndices(f) = {}
NoRemaining == RemainingFields = {}

\* The first field, in declaration order, that carries a cutoff marker.
FirstRemainingField == CHOOSE f \in RemainingFields : \A g \in RemainingFields : f <= g
\* The first cutoff marker of that field.
FirstRemainingAttr ==
    CHOOSE a \in RemainingIndices(FirstRemainingField) :
        \A b \in RemainingIndices(FirstRemainingField) : a <= b

\* parse_attributes has returned; the expansion of a struct has finished.
Parsed == data = "Struct" /\ pc \in {"new", "next", "done"}
Finished == data = "Struct" /\ pc = "done"

Plan == output[1].body
PlanSet == {Plan[i] : i \in DOMAIN Plan}
ErrorsWith(span, msg) == {i \in DOMAIN errors : errors[i] = Error(span, msg)}
Descending(s) == \A i, j \in DOMAIN s : i < j => s[i] > s[j]
\* n - 1, n - 2, ..., 0
CountDown(n) == [i \in 1..n |-> n - i]

\* ------------------------------------------------------------------------
\* C1: the destroy statements of the generated body are exactly the
\* positions below the boundary whose destroy_ignore flag is false, in
\* strictly descending order of their declaration positions; the boundary is
\* the recorded cutoff, or the number of fields when none was recorded.
\* Without any helper attribute the plan is n-1, ..., 0, and no field at or
\* after the cutoff is in the plan.
C1_PlanIsEligibleDescending ==
    Finished =>
        LET b == IF destroy_ignore_remaining_index = <<>>
                 THEN NumFields ELSE destroy_ignore_remaining_index[1]
        IN /\ Descending(Plan)
           /\ PlanSet = {p \in Positions : p < b /\ ~field_attrs[p + 1].destroy_ignore}
           /\ (NoIgnore /\ NoRemaining => Plan = CountDown(NumFields))
           /\ \A f \in RemainingFields : \A p \in Positions : p >= f => p \notin PlanSet

C1_Witness ==
    /\ Finished
    /\ NumFields = 3
    /\ destroy_ignore_remaining_index = <<2>>
    /\ IgnoreIndices(0) # {}
    /\ Plan = <<1>>

\* ------------------------------------------------------------------------
\* C2: a struct whose helper attributes are all well formed (no arguments,
\* at most one cutoff marker, at most one destroy_ignore per field, no
\* destroy_ignore on the cutoff field or after it) accumulates no error; with
\* a single destroy_ignore on field k and no cutoff the plan is n-1, ..., 0
\* with k removed.
WellFormed ==
    /\ NoArguments
    /\ Cardinality(AllRemaining) <= 1
    /\ \A f \in Positions : Cardinality(IgnoreIndices(f)) <= 1
    /\ \A f \in Positions : \A c \in RemainingFields : IgnoreIndices(f) # {} => f < c

C2_WellFormedNoDiagnostics ==
    (data = "Struct" /\ WellFormed) =>
        /\ errors = <<>>
        /\ \A k \in Positions :
            (/\ Finished
             /\ NoRemaining
             /\ \A f \in Positions : IgnoreIndices(f) # {} <=> f = k)
            => Plan = [i \in 1..(NumFields - 1) |->
                         IF NumFields - i > k THEN NumFields - i ELSE NumFields - i - 1]

C2_Witness ==
    /\ Finished
    /\ WellFormed
    /\ NumFields = 3
    /\ IgnoreIndices(0) # {}
    /\ RemainingFields = {1}
    /\ output[1].compile_errors = <<>>

\* ------------------------------------------------------------------------
\* C3: the first cutoff marker wins.  Once recorded, the cutoff never changes,
\* and it is the position of the first field carrying a marker.  With m >= 1
\* markers without arguments and no destroy_ignore there are exactly m - 1
\* errors, all "multiple", and the plan counts down from just below the
\* first marker's field.
C3_FirstRemainingWins ==
    /\ [][destroy_ignore_remaining_index # <<>>
            => destroy_ignore_remaining_index' = destroy_ignore_remaining_index]_vars
    /\ [](destroy_ignore_remaining_index # <<>>
            => /\ RemainingFields # {}
               /\ destroy_ignore_remaining_index = <<FirstRemainingField>>)
    /\ []((Finished /\ NoArguments /\ NoIgnore /\ ~NoRemaining)
            => /\ Len(errors) = Cardinality(AllRemaining) - 1
               /\ \A i \in DOMAIN errors : errors[i].msg = MsgMultipleRemaining
               /\ \A i \in DOMAIN errors :
                    /\ Len(errors[i].span) = 2
                    /\ <<errors[i].span[1], errors[i].span[2]>> \in AllRemaining
                    /\ errors[i].span # <<FirstRemainingField, FirstRemainingAttr>>
               /\ Plan = CountDown(FirstRemainingField))

C3_Witness ==
    /\ Finished
    /\ NumFields = 2
    /\ NoIgnore
    /\ NoArguments
    /\ RemainingFields = {0, 1}
    /\ destroy_ignore_remaining_index = <<0>>
    /\ Len(errors) = 1
    /\ Plan = <<>>

\* ------------------------------------------------------------------------
\* C4: without cutoff markers and arguments, a field with k >= 1
\* destroy_ignore attributes yields exactly k - 1 "multiple destroy_ignore"
\* errors, is flagged and is absent from the plan; a field with none is not
\* flagged, gets no error and stays in the plan.
C4_DuplicateIgnore ==
    (Finished /\ NoRemaining /\ NoArguments) =>
        /\ \A f \in Positions :
            LET k == Cardinality(IgnoreIndices(f)) IN
            IF k >= 1
            THEN /\ Cardinality(ErrorsWith(<<f>>, MsgMultipleIgnore)) = k - 1
                 /\ field_attrs[f + 1].destroy_ignore
                 /\ f \notin PlanSet
            ELSE /\ ErrorsWith(<<f>>, MsgMultipleIgnore) = {}
                 /\ ~field_attrs[f + 1].destroy_ignore
                 /\ f \in PlanSet
        /\ \A i \in DOMAIN errors : errors[i].msg = MsgMultipleIgnore

C4_Witness ==
    /\ Finished
    /\ NoRemaining
    /\ NoArguments
    /\ NumFields = 3
    /\ Cardinality(IgnoreIndices(1)) = 2
    /\ Len(errors) = 1
    /\ Plan = <<2, 0>>

\* ------------------------------------------------------------------------
\* C5: an enum or a union yields exactly one compile error and no impl, and
\* neither parse_attributes nor the statement iterator ever runs on it,
\* whatever attributes its members carry.
C5_UnsupportedIsFatal ==
    data # "Struct" =>
        /\ pc \in {"impl_macro", "done"}
        /\ field_attrs = <<>>
        /\ errors = <<>>
        /\ stmts = <<>>
        /\ destroy_ignore_remaining_index = <<>>
        /\ pc = "done" =>
            /\ Len(output) = 1
            /\ ~output[1].impl
            /\ output[1].body = <<>>
            /\ Len(output[1].compile_errors) = 1
            /\ output[1].compile_errors[1].compile_error
                 = (IF data = "Enum" THEN MsgEnum ELSE MsgUnion)

C5_Witness ==
    /\ data = "Enum"
    /\ pc = "done"
    /\ ~NoRemaining
    /\ ~NoIgnore
    /\ ~output[1].impl

\* ------------------------------------------------------------------------
\* C6: for a struct the expansion always runs to its end, and the output
\* holds the impl with the statements yielded, and one compile error per
\* accumulated error, in order, each with the error's message and span; so
\* the output is free of compile errors exactly when no error was accumulated.
C6_AllDiagnosticsEmitted ==
    data = "Struct" =>
        /\ pc # "panic"
        /\ pc # "done" => ENABLED Next
        /\ pc = "done" =>
            /\ Len(output) = 1
            /\ output[1].impl
            /\ output[1].body = stmts
            /\ Len(output[1].compile_errors) = Len(errors)
            /\ \A i \in DOMAIN errors :
                /\ output[1].compile_errors[i].compile_error = errors[i].msg
                /\ output[1].compile_errors[i].at = errors[i].span
            /\ (output[1].compile_errors = <<>> <=> errors = <<>>)

C6_Witness ==
    /\ Finished
    /\ output[1].impl
    /\ Len(errors) = 3
    /\ Len(output[1].compile_errors) = 3
    /\ output[1].body # <<>>

\* ------------------------------------------------------------------------
\* C7: with a cutoff recorded at position c, every destroy_ignore attribute
\* on a field at position >= c gets the "not allowed after" error, whatever
\* its index among the attributes of its field.
C7_MisorderedIgnoreReported ==
    Parsed =>
        \A f \in Positions : \A a \in IgnoreIndices(f) :
            (/\ destroy_ignore_remaining_index # <<>>
             /\ f >= destroy_ignore_remaining_index[1])
            => ErrorsWith(<<f, a>>, MsgNotAllowedAfter) # {}

\* ------------------------------------------------------------------------
\* C8 as stated: a cutoff marker with arguments met while no cutoff is
\* recorded pushes the "no arguments" error and leaves the cutoff absent.
AtFreshRemainingWithArguments ==
    /\ pc = "remaining"
    /\ attr_i < Len(fields[f_i + 1])
    /\ IsRemaining(f_i, attr_i)
    /\ HasArguments(f_i, attr_i)
    /\ destroy_ignore_remaining_index = <<>>

Diagnosed(f, a) ==
    \/ \E i \in DOMAIN errors : errors[i].span = <<f, a>>
    \/ /\ \E b \in IgnoreIndices(f) : b < a
       /\ ErrorsWith(<<f>>, MsgMultipleIgnore) # {}

OnlyIgnoreHasArguments(f) ==
    /\ Cardinality(IgnoreIndices(f)) = 1
    /\ \A a \in IgnoreIndices(f) : HasArguments(f, a)

C10_NoOutOfRange ==
    LET b == IF destroy_ignore_remaining_index = <<>>
             THEN NumFields ELSE destroy_ignore_remaining_index[1]
    IN /\ pc # "panic"
       /\ Len(field_attrs) <= NumFields
       /\ Parsed => Len(field_attrs) = NumFields
       /\ destroy_ignore_remaining_index # <<>>
            => /\ 0 <= destroy_ignore_remaining_index[1]
               /\ destroy_ignore_remaining_index[1] < NumFields
       /\ pc = "new" => (0 <= NumFields - b /\ NumFields - b <= NumFields)
       /\ (data = "Struct" /\ pc \in {"next", "done"})
            => /\ skipped = NumFields - b
               /\ 0 <= skipped /\ skipped <= NumFields
               /\ fields_iter <= b
       /\ pc = "next" => fields_iter <= Len(field_attrs)
       /\ \A i \in DOMAIN stmts : 0 <= stmts[i] /\ stmts[i] < NumFields

C10_Witness ==
    /\ pc = "next"
    /\ NumFields = 3
    /\ destroy_ignore_remaining_index = <<2>>
    /\ skipped = 1
    /\ fields_iter = 2
    /\ Len(field_attrs) = 3

C10_WitnessNoFields ==
    /\ Finished
    /\ NumFields = 0
    /\ skipped = 0
    /\ Plan = <<>>

====
